---- MODULE Spec2Model ----
(***************************************************************************)
(* Model of sqlfluff's TemplatedFile (core/templaters/base.py): the        *)
(* newline index, line/column resolution and the translation of a slice   *)
(* of the templated file into a slice of the source file.                  *)
(*                                                                         *)
(* Strings are sequences of characters; offsets are 0-based as in Python,  *)
(* so the Python expression x[i] is written x[i + 1].  A Python Optional   *)
(* is a record [present, val]; present = FALSE is None.                    *)
(***************************************************************************)
EXTENDS Integers, Sequences, FiniteSets, TLC

\* ---------------------------------------------------------------- bounds
MaxTextLen == 3    \* longest text of a file without a sliced_file
MaxSrcLen == 3     \* longest source text of a sliced file
MaxTmplLen == 2    \* longest templated text handed to a sliced file
MaxSegs == 2       \* most entries in sliced_file

Chars == {"a", "\n"}

None == [present |-> FALSE, val |-> <<>>]
Some(v) == [present |-> TRUE, val |-> v]

\* Python truthiness of an Optional[str] / Optional[list]
Truthy(opt) == opt.present /\ Len(opt.val) > 0

Min(S) == CHOOSE x \in S : \A y \in S : x <= y
Max(S) == CHOOSE x \in S : \A y \in S : x >= y

\* ------------------------------------------------ iter_indices_of_newlines
\* raw_str.find("\n", from): lowest index >= from holding ch, or -1
RECURSIVE find(_, _, _)
find(raw_str, ch, from) ==
    IF from >= Len(raw_str) THEN -1
    ELSE IF raw_str[from + 1] = ch THEN from
    ELSE find(raw_str, ch, from + 1)

RECURSIVE iter_newlines_from(_, _)
iter_newlines_from(raw_str, init_idx) ==
    LET nl_pos == find(raw_str, "\n", init_idx + 1)
    IN  IF nl_pos >= 0
        THEN <<nl_pos>> \o iter_newlines_from(raw_str, nl_pos)
        ELSE <<>>

iter_indices_of_newlines(raw_str) == iter_newlines_from(raw_str, -1)

\* ------------------------------------------------ get_line_pos_of_char_pos
RECURSIVE scan_nl_idx(_, _, _)
scan_nl_idx(ref_str, char_pos, nl_idx) ==
    IF nl_idx + 1 < Len(ref_str) /\ ref_str[nl_idx + 2] < char_pos
    THEN scan_nl_idx(ref_str, char_pos, nl_idx + 1)
    ELSE nl_idx

\* faulty variant: subtracts the wrong way round in the column
get_line_pos_swapped(ref_str, char_pos) ==
    LET nl_idx == scan_nl_idx(ref_str, char_pos, -1)
    IN  IF nl_idx >= 0
        THEN <<nl_idx + 2, ref_str[nl_idx + 1] - char_pos>>
        ELSE <<1, char_pos + 1>>

\* faulty variant: counts lines from the newline index without the 1-based shift
get_line_pos_lineoff(ref_str, char_pos) ==
    LET nl_idx == scan_nl_idx(ref_str, char_pos, -1)
    IN  IF nl_idx >= 0
        THEN <<nl_idx + 3, char_pos - ref_str[nl_idx + 1]>>
        ELSE <<1, char_pos + 1>>

get_line_pos_of_char_pos(ref_str, char_pos) ==
    LET nl_idx == scan_nl_idx(ref_str, char_pos, -1)
    IN  IF nl_idx >= 0
        THEN <<nl_idx + 2, char_pos - ref_str[nl_idx + 1]>>
        ELSE <<1, char_pos + 1>>

\* ------------------------------------------ template_slice_to_source_slice
\* faulty variant: breaks on >= instead of >
RECURSIVE scan_start_idx_geq(_, _, _)
scan_start_idx_geq(file, start, idx) ==
    IF idx + 1 >= Len(file) \/ file[idx + 1].tmpl.stop >= start
    THEN idx
    ELSE scan_start_idx_geq(file, start, idx + 1)

\* for idx, elem in enumerate(file): start_idx = idx; if elem[2].stop > start: break
RECURSIVE scan_start_idx(_, _, _)
scan_start_idx(file, start, idx) ==
    IF idx + 1 >= Len(file) \/ file[idx + 1].tmpl.stop > start
    THEN idx
    ELSE scan_start_idx(file, start, idx + 1)

\* for idx, elem in enumerate(tail): stop_idx = idx; if elem[2].stop >= stop: break
RECURSIVE scan_stop_idx(_, _, _)
scan_stop_idx(tail, stop, idx) ==
    IF idx + 1 >= Len(tail) \/ tail[idx + 1].tmpl.stop >= stop
    THEN idx
    ELSE scan_stop_idx(tail, stop, idx + 1)

Ok(v) == [value |-> v, raised |-> "none"]
Raise(e) == [value |-> <<>>, raised |-> e]

\* Start: exact inside a literal, greedy otherwise
source_start_of(first, start) ==
    IF first.kind = "literal"
    THEN first.src.start + (start - first.tmpl.start)
    ELSE first.src.start

\* faulty variant: adds the offset to the end of the last slice
source_stop_added(last, stop) ==
    IF last.kind = "literal"
    THEN last.src.stop + (last.tmpl.stop - stop)
    ELSE last.src.stop

\* Stop: exact inside a literal, greedy otherwise
source_stop_of(last, stop) ==
    IF last.kind = "literal"
    THEN last.src.stop - (last.tmpl.stop - stop)
    ELSE last.src.stop

\* is_literal after the start, stop and mid-segment checks
is_literal_of(slices) ==
    /\ slices[1].kind = "literal"
    /\ slices[Len(slices)].kind = "literal"
    /\ ~ \E i \in 1..Len(slices) : slices[i].kind # "literal"

\* the widest possible span of the slices
widest_span(slices) ==
    [start |-> Min({slices[i].src.start : i \in 1..Len(slices)}),
     stop |-> Max({slices[i].src.stop : i \in 1..Len(slices)})]

\* faulty variant: returns the boundaries as computed, reversed or not
translate_window_unguarded(file, start, stop) ==
    IF Len(file) = 0 THEN Raise("IndexError")   \* slices == [], slices[0]
    ELSE
    LET start_idx == scan_start_idx(file, start, 0)
        tail == SubSeq(file, start_idx + 1, Len(file))
        stop_idx == scan_stop_idx(tail, stop, 0) + start_idx + 1
        slices == SubSeq(file, start_idx + 1, stop_idx)
    IN  Ok([start |-> source_start_of(slices[1], start),
                 stop |-> source_stop_of(slices[Len(slices)], stop),
                 is_literal |-> is_literal_of(slices)])

\* the body after the "if not self.sliced_file" guard
translate_window(file, start, stop) ==
    IF Len(file) = 0 THEN Raise("IndexError")   \* slices == [], slices[0]
    ELSE
    LET start_idx == scan_start_idx(file, start, 0)
        tail == SubSeq(file, start_idx + 1, Len(file))
        stop_idx == scan_stop_idx(tail, stop, 0) + start_idx + 1
        slices == SubSeq(file, start_idx + 1, stop_idx)
        source_start == source_start_of(slices[1], start)
        source_stop == source_stop_of(slices[Len(slices)], stop)
        is_literal == is_literal_of(slices)
    IN  IF source_start > source_stop
        THEN Ok([start |-> widest_span(slices).start,
                 stop |-> widest_span(slices).stop,
                 is_literal |-> is_literal])
        ELSE Ok([start |-> source_start, stop |-> source_stop,
                 is_literal |-> is_literal])

\* faulty variant: tests only for None, not for the empty list
template_slice_none_only(file, start, stop) ==
    IF ~file.present
    THEN Ok([start |-> start, stop |-> stop, is_literal |-> FALSE])
    ELSE translate_window(file.val, start, stop)

template_slice_to_source_slice(file, start, stop) ==
    IF ~Truthy(file)
    THEN Ok([start |-> start, stop |-> stop, is_literal |-> FALSE])
    ELSE translate_window(file.val, start, stop)

\* ------------------------------------------------------------ __init__
TemplatedFile(src, tmpl, sliced) ==
    LET t == IF Truthy(tmpl) THEN tmpl.val ELSE src
    IN  [source_str |-> src,
         templated_str |-> t,
         sliced_file |-> sliced,
         source_newlines |-> iter_indices_of_newlines(src),
         templated_newlines |-> iter_indices_of_newlines(t)]

\* ---------------------------------------------------------------- state
VARIABLES
    source_str, templated_str, sliced_file,   \* fields set by __init__
    source_newlines, templated_newlines,      \* _source_newlines, _templated_newlines
    templated_arg,      \* the templated_str argument __init__ was given
    op, args, ret       \* the last query, its arguments and what it returned

vars == <<source_str, templated_str, sliced_file, source_newlines,
          templated_newlines, templated_arg, op, args, ret>>

fields == <<source_str, templated_str, sliced_file, source_newlines,
            templated_newlines, templated_arg>>

\* ------------------------------------------------------- constructor inputs
Texts == UNION {[1..n -> Chars] : n \in 0..MaxTextLen}
Plain(max) == {[i \in 1..n |-> "a"] : n \in 0..max}

Span(a, b) == [start |-> a, stop |-> b]
Spans(len) == UNION {{Span(a, b) : b \in a..len} : a \in 0..len}

\* what a templater may record for one stretch of the templated text over a
\* source of length len: a literal is a verbatim copy, so it names only where
\* the copy starts in the source; any other kind may come from any source slice
Origins(len) ==
    {[kind |-> "literal", src |-> Span(c, c)] : c \in 0..len}
    \cup {[kind |-> "templated", src |-> sp] : sp \in Spans(len)}

\* the entry for the templated range [a, b) with the given origin
Entry(origin, a, b) ==
    [kind |-> origin.kind,
     src |-> IF origin.kind = "literal"
             THEN Span(origin.src.start, origin.src.start + (b - a))
             ELSE origin.src,
     tmpl |-> Span(a, b)]

\* the sliced file whose templated slices are cut at the given offsets of
\* [0, tlen), one entry per origin
SlicedFile(cuts, origins, tlen) ==
    LET n == Len(origins)
        lo(i) == IF i = 1 THEN 0 ELSE cuts[i - 1]
        hi(i) == IF i = n THEN tlen ELSE cuts[i]
    IN  [i \in 1..n |-> Entry(origins[i], lo(i), hi(i))]

\* the cuts are in order and every entry stays inside the source
Tiles(file, len) ==
    \A i \in 1..Len(file) :
        /\ file[i].tmpl.start <= file[i].tmpl.stop
        /\ file[i].src.stop <= len

\* ---------------------------------------------------------------- Init
Constructed(src, tmpl, sliced) ==
    LET f == TemplatedFile(src, tmpl, sliced)
    IN  /\ source_str = f.source_str
        /\ templated_str = f.templated_str
        /\ sliced_file = f.sliced_file
        /\ source_newlines = f.source_newlines
        /\ templated_newlines = f.templated_newlines
        /\ templated_arg = tmpl
        /\ op = "__init__"
        /\ args = <<>>
        /\ ret = Ok(<<>>)

\* files without a usable sliced_file: every text, with or without a
\* templated text, sliced_file None or the empty list
InitText ==
    \E src \in Texts, tmpl \in {None} \cup {Some(t) : t \in Texts},
       sliced \in {None, Some(<<>>)} :
        Constructed(src, tmpl, sliced)

\* files with a sliced_file: the translation reads only the slices, so the
\* texts are rows of "a" of every length; the templated text the file ends up
\* with (the source, when the one handed in is empty) is MaxTmplLen at most
InitSliced ==
    \E src \in Plain(MaxSrcLen), tmpl \in Plain(MaxTmplLen) :
        LET tlen == Len(TemplatedFile(src, Some(tmpl), None).templated_str)
        IN  /\ tlen <= MaxTmplLen
            /\ \E n \in 1..MaxSegs :
                \E cuts \in [1..(n - 1) -> 0..tlen], origins \in [1..n -> Origins(Len(src))] :
                    LET file == SlicedFile(cuts, origins, tlen)
                    IN  /\ Tiles(file, Len(src))
                        /\ Constructed(src, Some(tmpl), Some(file))

\* -------------------------------------------------------------- actions
Bool ==
    /\ op' = "__bool__"
    /\ args' = <<>>
    /\ ret' = Ok(Len(templated_str) > 0)
    /\ UNCHANGED fields

\* callers ask about offsets around the text: one before it to one past its end
GetLinePosOfCharPos ==
    \E source \in BOOLEAN :
        \E char_pos \in -1..(Len(IF source THEN source_str ELSE templated_str) + 1) :
            /\ op' = "get_line_pos_of_char_pos"
            /\ args' = [char_pos |-> char_pos, source |-> source]
            /\ ret' = Ok(get_line_pos_of_char_pos(
                            IF source THEN source_newlines ELSE templated_newlines,
                            char_pos))
            /\ UNCHANGED fields

\* with a sliced_file the lexer hands in slices of the templated text; with
\* none, any pair of integers around the text
SliceInputs ==
    IF Truthy(sliced_file)
    THEN Spans(Len(templated_str))
    ELSE {Span(a, b) : a, b \in -1..(Len(templated_str) + 1)}

TemplateSliceToSourceSlice ==
    \E template_slice \in SliceInputs :
        /\ op' = "template_slice_to_source_slice"
        /\ args' = template_slice
        /\ ret' = template_slice_to_source_slice(sliced_file, template_slice.start,
                                                 template_slice.stop)
        /\ UNCHANGED fields

Next == Bool \/ GetLinePosOfCharPos \/ TemplateSliceToSourceSlice

\* files with no sliced_file, every query
SpecText == InitText /\ [][Next]_vars

\* files with a sliced_file, the translation of every slice
NextSliced == TemplateSliceToSourceSlice
SpecSliced == InitSliced /\ [][NextSliced]_vars

\* ================================================================ claims
SliceCall == op = "template_slice_to_source_slice"
LineCall == op = "get_line_pos_of_char_pos"
HasTable == Truthy(sliced_file)
File == sliced_file.val
Seg(i) == sliced_file.val[i]
IsLit(i) == Seg(i).kind = "literal"

\* the data-model invariants of a correspondence table
WellFormedTable ==
    /\ Seg(1).tmpl.start = 0
    /\ Seg(Len(File)).tmpl.stop = Len(templated_str)
    /\ \A i \in 1..(Len(File) - 1) : Seg(i).tmpl.stop = Seg(i + 1).tmpl.start
    /\ \A i \in 1..Len(File) :
        /\ Seg(i).tmpl.start <= Seg(i).tmpl.stop
        /\ 0 <= Seg(i).src.start
        /\ Seg(i).src.start <= Seg(i).src.stop
        /\ Seg(i).src.stop <= Len(source_str)
        /\ IsLit(i) => Seg(i).src.stop - Seg(i).src.start
                        = Seg(i).tmpl.stop - Seg(i).tmpl.start

ValidSlice == 0 <= args.start /\ args.start <= args.stop
              /\ args.stop <= Len(templated_str)

SlicePre == SliceCall /\ HasTable /\ WellFormedTable /\ ValidSlice

\* the reference steps of the window search
StartCands == {i \in 1..Len(File) : Seg(i).tmpl.stop > args.start}
StartSeg == IF StartCands # {} THEN Min(StartCands) ELSE Len(File)
StopSeg(a) == Min({j \in a..Len(File) : Seg(j).tmpl.stop >= args.stop})
BoundStart(a) == IF IsLit(a) THEN Seg(a).src.start + (args.start - Seg(a).tmpl.start)
                 ELSE Seg(a).src.start
BoundStop(b) == IF IsLit(b) THEN Seg(b).src.stop - (Seg(b).tmpl.stop - args.stop)
                ELSE Seg(b).src.stop
AllLit(a, b) == \A i \in a..b : IsLit(i)
Ordered == BoundStart(StartSeg) <= BoundStop(StopSeg(StartSeg))
Reversed == BoundStart(StartSeg) > BoundStop(StopSeg(StartSeg))
RefResult(a) == Ok([start |-> BoundStart(a), stop |-> BoundStop(StopSeg(a)),
                    is_literal |-> AllLit(a, StopSeg(a))])

\* C1 (as stated): with ordered boundaries the result is that of the
\* reference steps, whose window starts at the first segment whose templated
\* end is strictly greater than the start of the slice
C1_Original ==
    (SlicePre /\ Ordered) => (StartCands # {} /\ ret = RefResult(Min(StartCands)))

\* C1 (amended): with ordered boundaries the result is that of the reference
\* steps, whose window starts at the first segment whose templated end is
\* strictly greater than the start of the slice, or at the last segment when
\* no segment's templated end is (a slice starting at the end of the text)
C1_Amended == (SlicePre /\ Ordered) => ret = RefResult(StartSeg)

\* a literal then a templated entry, a slice from inside the first to the
\* end of the second
C1_Witness ==
    /\ SlicePre /\ Ordered /\ Len(File) = 2
    /\ IsLit(1) /\ ~IsLit(2)
    /\ args.start < Seg(1).tmpl.stop
    /\ Seg(2).tmpl.start < args.stop /\ args.stop = Seg(2).tmpl.stop
    /\ ret = Ok([start |-> Seg(1).src.start + args.start,
                 stop |-> Seg(2).src.stop, is_literal |-> FALSE])
    /\ ret.value.start < ret.value.stop

\* the amended case itself: a slice [len, len) answered from the last entry
C1_EndOfText ==
    /\ SlicePre /\ StartCands = {} /\ Len(File) = 2 /\ Len(templated_str) > 0
    /\ ret.raised = "none"

\* C2: when the boundaries come out reversed the result is the widest span
\* of the window and is never exact, whatever the kinds of the entries
C2_FallbackInexact ==
    (SlicePre /\ Reversed) =>
        LET a == StartSeg
            b == StopSeg(StartSeg)
        IN  ret = Ok([start |-> Min({Seg(i).src.start : i \in a..b}),
                      stop |-> Max({Seg(i).src.stop : i \in a..b}),
                      is_literal |-> FALSE])

\* C3: over a single literal entry with source = templated = [0, N) every
\* slice [s, e), 0 <= s <= e <= N, translates to itself, exactly
IdentityTable ==
    /\ HasTable /\ Len(File) = 1 /\ IsLit(1)
    /\ Seg(1).src = Span(0, Len(templated_str))
    /\ Seg(1).tmpl = Span(0, Len(templated_str))

C3_LiteralRoundTrip ==
    (SliceCall /\ IdentityTable /\ ValidSlice) =>
        ret = Ok([start |-> args.start, stop |-> args.stop, is_literal |-> TRUE])

\* the empty slice at the end of a text of two characters or more
C3_Witness ==
    /\ SliceCall /\ IdentityTable /\ Len(templated_str) >= 2
    /\ args = Span(Len(templated_str), Len(templated_str))
    /\ ret = Ok([start |-> args.start, stop |-> args.stop, is_literal |-> TRUE])

\* C4: with sliced_file None or empty every slice comes back unchanged and
\* inexact, and nothing is raised
C4_NoTableIdentity ==
    (SliceCall /\ ~HasTable) =>
        ret = Ok([start |-> args.start, stop |-> args.stop, is_literal |-> FALSE])

\* an empty list and a slice that is not even ordered
C4_Witness ==
    /\ SliceCall /\ sliced_file = Some(<<>>)
    /\ args.start > args.stop /\ args.stop < 0
    /\ ret = Ok([start |-> args.start, stop |-> args.stop, is_literal |-> FALSE])

\* C5: an exact result has the length of the slice and sends every
\* templated offset of the slice to the source offset its literal entry gives
C5_ExactIsCharForChar ==
    (SlicePre /\ ret.raised = "none" /\ ret.value.is_literal) =>
        /\ ret.value.stop - ret.value.start = args.stop - args.start
        /\ \A t \in args.start..(args.stop - 1) :
            \A i \in 1..Len(File) :
                (Seg(i).tmpl.start <= t /\ t < Seg(i).tmpl.stop) =>
                    /\ IsLit(i)
                    /\ ret.value.start + (t - args.start)
                        = Seg(i).src.start + (t - Seg(i).tmpl.start)

\* C9: the translated slice is a slice of the source text:
\* 0 <= start <= stop <= len(source_str), on both paths
C9_WellFormedResult ==
    SlicePre =>
        /\ ret.raised = "none"
        /\ 0 <= ret.value.start
        /\ ret.value.start <= ret.value.stop
        /\ ret.value.stop <= Len(source_str)

\* the widest-span path: reversed boundaries over two entries
C9_Witness ==
    /\ SlicePre /\ Reversed /\ Len(File) >= 2
    /\ ret.raised = "none"
    /\ ret.value.start < ret.value.stop

\* ------------------------------------------------- line / column claims
\* the text a line query looked at, and the newline offsets read off it
TextOf(source) == IF source THEN source_str ELSE templated_str
NewlinesIn(text) == {i \in 0..(Len(text) - 1) : text[i + 1] = "\n"}
ValidOffset(a) == 0 <= a.char_pos /\ a.char_pos <= Len(TextOf(a.source))
Before(a) == {n \in NewlinesIn(TextOf(a.source)) : n < a.char_pos}
CountUpTo(a, n) == Cardinality({m \in NewlinesIn(TextOf(a.source)) : m <= n})

\* C6: of two valid offsets o1 < o2 of the same text, resolved one after the
\* other, the second is not on an earlier line, and on the same line it is
\* in a later column
C6_Monotonic ==
    [][(/\ LineCall /\ LineCall'
        /\ args.source = args'.source
        /\ ValidOffset(args) /\ ValidOffset(args')
        /\ args.char_pos < args'.char_pos)
       => /\ ret.value[1] <= ret'.value[1]
          /\ ret.value[1] = ret'.value[1] => ret.value[2] < ret'.value[2]]_vars

\* an offset past two consecutive newlines, two columns into its line
C6_Witness ==
    /\ LineCall /\ ValidOffset(args)
    /\ \E n \in Before(args) : n - 1 \in Before(args)
    /\ ret = Ok(<<3, 2>>)

\* C7 (as stated): with n the greatest newline offset below the offset,
\* line = (count of newline offsets <= n) + 2 and column = offset - n;
\* with no such newline, line = 1 and column = offset + 1
C7_Original ==
    (LineCall /\ ValidOffset(args)) =>
        IF Before(args) # {}
        THEN LET n == Max(Before(args))
             IN  ret = Ok(<<CountUpTo(args, n) + 2, args.char_pos - n>>)
        ELSE ret = Ok(<<1, args.char_pos + 1>>)

\* C7 (amended): with n the greatest newline offset below the offset,
\* line = (count of newline offsets <= n) + 1 and column = offset - n;
\* with no such newline, line = 1 and column = offset + 1
C7_Amended ==
    (LineCall /\ ValidOffset(args)) =>
        IF Before(args) # {}
        THEN LET n == Max(Before(args))
             IN  ret = Ok(<<CountUpTo(args, n) + 1, args.char_pos - n>>)
        ELSE ret = Ok(<<1, args.char_pos + 1>>)

\* the end of a text whose second line holds one character
C7_Witness ==
    /\ LineCall /\ ValidOffset(args)
    /\ args.char_pos = Len(TextOf(args.source))
    /\ Before(args) # {} /\ Max(Before(args)) = args.char_pos - 2
    /\ ret.value[2] = 2 /\ ret.value[1] >= 2

\* C8: the end-of-file offset resolves; a negative offset or one beyond the
\* end of the text fails with InvalidOffset and yields no position
C8_InvalidOffsetRejected ==
    LineCall =>
        IF ValidOffset(args) THEN ret.raised = "none"
        ELSE ret.raised = "InvalidOffset"

\* C10: a templated text that was supplied is kept as given, the empty one
\* included, and the source text stands in only when none was supplied; so
\* __bool__ of a file given a templated text says whether that text is
\* non-empty
C10_SuppliedTemplatedKept ==
    op = "__bool__" =>
        /\ templated_arg.present => templated_str = templated_arg.val
        /\ ~templated_arg.present => templated_str = source_str
        /\ templated_arg.present => ret = Ok(Len(templated_arg.val) > 0)

====
